---- MODULE Spec2Model ----
(***************************************************************************)
(* task-api-charm: a Juju charm (src/src/charm.py) that validates the      *)
(* operator's configuration and writes /etc/task-api.yaml, and the gateway *)
(* (src/src/server.py) that loads that file, registers one GET route per   *)
(* action and runs the action's shell command on request.                  *)
(*                                                                         *)
(* Python values are modelled as records with the same fields throughout:  *)
(* a YAML text by what yaml.safe_load makes of it, a string that the code  *)
(* transforms (an action name) as a sequence of one-character strings.     *)
(*                                                                         *)
(* Spec is the unit's life cycle (install, config-changed, juju config);   *)
(* SpecServer a gateway started on the file the install hook left;         *)
(* SpecStartup the gateway's start-up step by step against a rewrite of    *)
(* the file; SpecRequests the worker threads of a serving gateway.         *)
(***************************************************************************)
EXTENDS Naturals, Sequences, FiniteSets, TLC

VARIABLES
    config,     \* the charm configuration (self.config): actions, tokens, auth-enabled, port
    file,       \* CONFIG_FILE, /etc/task-api.yaml
    status,     \* self.unit.status
    hook,       \* what the last event handler did
    installed,  \* the install hook has completed
    rewrite,    \* the config-changed handler in progress, when its steps are told apart
    srv,        \* the gateway process (TaskAPIServer)
    resp,       \* the last request the gateway handled, and its response
    inflight    \* the requests the gateway's worker threads are handling

vars == <<config, file, status, hook, installed, rewrite, srv, resp, inflight>>

charmVars == <<config, file, status, hook, installed, rewrite>>
serverVars == <<srv, resp, inflight>>

(***************************************************************************)
(* Bounds                                                                  *)
(***************************************************************************)
\* longest `actions` list the operator configures
MaxActions == 2

SeqsUpTo(S, n) == UNION {[1..k -> S] : k \in 0..n}

(***************************************************************************)
(* Values of the `actions` option.  An element of the parsed list is a     *)
(* mapping (dict) or not; a mapping has the key `name`, the key `cmd`,     *)
(* both or neither; a name is a string (its characters) or another YAML    *)
(* scalar such as 5.                                                       *)
(***************************************************************************)
NoChars == <<>>

NonDict == [dict |-> FALSE, hasName |-> FALSE, hasCmd |-> FALSE,
            nameIsStr |-> FALSE, name |-> NoChars, cmd |-> "none"]
NoName  == [dict |-> TRUE, hasName |-> FALSE, hasCmd |-> TRUE,
            nameIsStr |-> FALSE, name |-> NoChars, cmd |-> "ls"]
NoCmd   == [dict |-> TRUE, hasName |-> TRUE, hasCmd |-> FALSE,
            nameIsStr |-> TRUE, name |-> <<"C">>, cmd |-> "none"]

Action(n, c) == [dict |-> TRUE, hasName |-> TRUE, hasCmd |-> TRUE,
                 nameIsStr |-> TRUE, name |-> n, cmd |-> c]

\* {name: "A B", cmd: ls}, {name: "a_b", cmd: date}, {name: "C", cmd: date}
ListFiles == Action(<<"A", " ", "B">>, "ls")
ShowDate  == Action(<<"a", "_", "b">>, "date")
Clock     == Action(<<"C">>, "date")
\* {name: 5, cmd: ls}: the name is not a string
IntName   == [dict |-> TRUE, hasName |-> TRUE, hasCmd |-> TRUE,
              nameIsStr |-> FALSE, name |-> NoChars, cmd |-> "ls"]

BadElems   == {NonDict, NoName, NoCmd}
\* the elements the operator writes in the unit's life cycle
CharmElems == BadElems \cup {ListFiles, Clock}
\* the elements of the lists the gateway is started on
RouteElems == {ListFiles, ShowDate, Clock, IntName}

\* A YAML text of the `actions` option, by what yaml.safe_load makes of it:
\* a YAMLError, None (an empty text), a scalar, or a list.
ActionsText(k, items) == [k |-> k, items |-> items]
ActionsUnparseable == ActionsText("unparseable", <<>>)
ActionsNull        == ActionsText("null", <<>>)
ActionsScalar      == ActionsText("scalar", <<>>)
ActionsList(items) == ActionsText("list", items)

ActionValuesOver(E) ==
    {ActionsUnparseable, ActionsNull, ActionsScalar}
        \cup {ActionsList(l) : l \in SeqsUpTo(E, MaxActions)}

ActionValues == ActionValuesOver(CharmElems)
\* a reconfiguration (juju config) sets a text of at most one element
ReconfigActionValues == {a \in ActionValues : Len(a.items) <= 1}

(***************************************************************************)
(* Values of the `tokens` option: unset (None), or a YAML text.            *)
(***************************************************************************)
TokenEntry(k, kStr, v, vStr) == [key |-> k, keyIsStr |-> kStr, val |-> v, valIsStr |-> vStr]

TokensText(k, entries) == [k |-> k, entries |-> entries]
TokensNone        == TokensText("none", {})
TokensUnparseable == TokensText("unparseable", {})
TokensNull        == TokensText("null", {})        \* the empty string
TokensScalar      == TokensText("scalar", {})
TokensList        == TokensText("list", {})
\* {abc123: alice}, {"": root}, {1: alice}, {abc123: 5}
TokensAlice       == TokensText("map", {TokenEntry("abc123", TRUE, "alice", TRUE)})
TokensEmptyKey    == TokensText("map", {TokenEntry("", TRUE, "root", TRUE)})
TokensIntKey      == TokensText("map", {TokenEntry("1", FALSE, "alice", TRUE)})
TokensIntVal      == TokensText("map", {TokenEntry("abc123", TRUE, "5", FALSE)})

TokenValues == {TokensNone, TokensUnparseable, TokensNull, TokensScalar, TokensList,
                TokensAlice, TokensEmptyKey, TokensIntKey, TokensIntVal}

\* the `port` option is an integer: a usable port, and two that are not in
\* 1..65535
Ports == {0, 8080, 70000}

Configs == [actions : ActionValues, tokens : TokenValues, auth : BOOLEAN, port : Ports]

(***************************************************************************)
(* The config file: absent, or present with a content that is empty or a   *)
(* document.                                                               *)
(***************************************************************************)
\* A document is a mapping: the keys it has, and their values.
DocKeys == {"port", "actions", "auth_enabled", "tokens"}

NoDoc == [keys |-> {}, port |-> 0, actions |-> <<>>, auth_enabled |-> FALSE, tokens |-> {}]

NoFile    == [exists |-> FALSE, empty |-> TRUE, doc |-> NoDoc]
EmptyFile == [exists |-> TRUE, empty |-> TRUE, doc |-> NoDoc]
DocFile(d) == [exists |-> TRUE, empty |-> FALSE, doc |-> d]

(***************************************************************************)
(* charm.py                                                                *)
(***************************************************************************)
BlockedStatus(msg) == [kind |-> "blocked", msg |-> msg]
ActiveStatus(msg)  == [kind |-> "active", msg |-> msg]
\* the status Juju shows while the install hook has not run
MaintenanceStatus  == [kind |-> "maintenance", msg |-> ""]
\* the status Juju sets when a hook ends with an unhandled exception
ErrorStatus        == [kind |-> "error", msg |-> "hook failed"]

_actions_is_list(actions) == actions.k = "list"

_action_is_dict(action) == action.dict

\* for action in actions: the first element that fails decides
RECURSIVE StructFrom(_, _)
StructFrom(items, i) ==
    IF i > Len(items) THEN TRUE
    ELSE IF ~_action_is_dict(items[i]) THEN FALSE
    ELSE IF ~items[i].hasName \/ ~items[i].hasCmd THEN FALSE
    ELSE StructFrom(items, i + 1)

\* a return True inside the loop: only the first element is looked at
_valid_actions_struct_first_only(actions) ==
    StructFrom(SubSeq(actions.items, 1, IF Len(actions.items) > 0 THEN 1 ELSE 0), 1)

_valid_actions_struct(actions) == StructFrom(actions.items, 1)

_valid_actions(actions) ==
    IF ~_actions_is_list(actions) THEN FALSE
    ELSE IF ~_valid_actions_struct(actions) THEN FALSE
    ELSE TRUE

\* the test of the keys and values left out
TokensIsDict(tokens) == tokens.k = "map"

\* isinstance(tokens, dict) and all(isinstance(k, str) and isinstance(v, str) ...)
TokensIsStrDict(tokens) ==
    /\ tokens.k = "map"
    /\ \A e \in tokens.entries : e.keyIsStr /\ e.valIsStr

\* config_data of _render_config_file: yaml.dump(actions) is the list's text,
\* tokens is the parsed mapping, or {} when the option is unset
ConfigData(actions, auth_enabled, tokens, port) ==
    [keys |-> DocKeys,
     port |-> port,
     actions |-> actions.items,
     auth_enabled |-> auth_enabled,
     tokens |-> IF tokens.k # "none" THEN tokens.entries ELSE {}]

\* templates/task-api.jinja: a YAML document of the four fields of config_data
TemplateRender(config_data) == DocFile(config_data)

_render_config_file(actions, auth_enabled, tokens, port) ==
    TemplateRender(ConfigData(actions, auth_enabled, tokens, port))

\* open(file_path, mode="w") creates or truncates the file, then write
_write_config_file(file_content) == file_content

\* The result of _update_config_file: the file, the status it sets, whether it
\* wrote the file, and the return statement it left by.
Updated(f, st, wrote, verdict) ==
    [file |-> f, status |-> st, wrote |-> wrote, verdict |-> verdict]

_update_config_file(cfg, f) ==
    IF cfg.actions.k = "unparseable"
    THEN Updated(f, BlockedStatus("Invalid actions configuration"), FALSE, "actions_yaml_error")
    ELSE IF cfg.actions.k = "null"
    THEN Updated(_write_config_file(EmptyFile), BlockedStatus("Actions not configured"),
                 TRUE, "actions_none")
    ELSE IF ~_valid_actions(cfg.actions)
    THEN Updated(f, BlockedStatus("Invalid actions structure"), FALSE, "actions_structure")
    ELSE IF cfg.tokens.k # "none" /\ cfg.tokens.k = "unparseable"
    THEN Updated(f, BlockedStatus("Invalid tokens configuration"), FALSE, "tokens_yaml_error")
    ELSE IF cfg.tokens.k # "none" /\ ~TokensIsStrDict(cfg.tokens)
    THEN Updated(f, BlockedStatus("Invalid tokens structure"), FALSE, "tokens_structure")
    ELSE Updated(_write_config_file(
                     _render_config_file(cfg.actions, cfg.auth, cfg.tokens, cfg.port)),
                 ActiveStatus("Actions configured"), TRUE, "written")

\* os.stat(CONFIG_FILE).st_size == 0; os.stat raises FileNotFoundError when
\* the file does not exist
_configured(f) == [raised |-> ~f.exists, value |-> f.exists /\ ~f.empty]

\* What the handler that ran on the current configuration did: the event, the return of _update_config_file, whether
\* the file was written, whether systemctl start / restart ran, whether the
\* port was opened, whether the handler ended with an unhandled exception.
Hook(op, verdict, wrote, started, restarted, opened, aborted) ==
    [op |-> op, verdict |-> verdict, wrote |-> wrote, started |-> started,
     restarted |-> restarted, opened |-> opened, aborted |-> aborted]

NoHook == Hook("none", "none", FALSE, FALSE, FALSE, FALSE, FALSE)

\* _on_install: _update_config_file, _install_systemd (which writes the unit
\* file and starts and enables the service), then _configured decides.
\* systemctl is taken to succeed.  The result: the file, the status, what the
\* handler did, and whether it completed.
InstallOutcome(cfg, f) ==
    LET u == _update_config_file(cfg, f)
        c == _configured(u.file)
    IN IF c.raised
       THEN [file |-> u.file, status |-> ErrorStatus, installed |-> FALSE,
             hook |-> Hook("install", u.verdict, u.wrote, TRUE, FALSE, FALSE, TRUE)]
       ELSE [file |-> u.file,
             status |-> IF c.value THEN ActiveStatus("Ready")
                        ELSE BlockedStatus("Charm not configured"),
             installed |-> TRUE,
             hook |-> Hook("install", u.verdict, u.wrote, TRUE, FALSE, c.value, FALSE)]

_on_install ==
    /\ ~installed
    /\ LET r == InstallOutcome(config, file)
       IN /\ file' = r.file
          /\ status' = r.status
          /\ hook' = r.hook
          /\ installed' = r.installed
    /\ UNCHANGED <<config, rewrite, serverVars>>

\* _on_config_changed: _update_config_file, then restart, open the port and
\* report Ready if _configured, else Blocked.
ConfigChangedOutcome(cfg, f) ==
    LET u == _update_config_file(cfg, f)
        c == _configured(u.file)
    IN IF c.raised
       THEN [file |-> u.file, status |-> ErrorStatus,
             hook |-> Hook("config_changed", u.verdict, u.wrote, FALSE, FALSE, FALSE, TRUE)]
       ELSE [file |-> u.file,
             status |-> IF c.value THEN ActiveStatus("Ready")
                        ELSE BlockedStatus("Charm not configured"),
             hook |-> Hook("config_changed", u.verdict, u.wrote, FALSE, c.value, c.value, FALSE)]

_on_config_changed ==
    /\ installed
    /\ LET r == ConfigChangedOutcome(config, file)
       IN /\ file' = r.file
          /\ status' = r.status
          /\ hook' = r.hook
    /\ UNCHANGED <<config, installed, rewrite, serverVars>>

\* juju config: the operator sets one option; no handler has run on the new
\* configuration yet
SetActions(a) ==
    /\ config' = [config EXCEPT !.actions = a]
    /\ config' # config
    /\ hook' = NoHook
    /\ UNCHANGED <<file, status, installed, rewrite, serverVars>>

SetTokens(t) ==
    /\ config' = [config EXCEPT !.tokens = t]
    /\ config' # config
    /\ hook' = NoHook
    /\ UNCHANGED <<file, status, installed, rewrite, serverVars>>

SetAuthEnabled(b) ==
    /\ config' = [config EXCEPT !.auth = b]
    /\ config' # config
    /\ hook' = NoHook
    /\ UNCHANGED <<file, status, installed, rewrite, serverVars>>

(***************************************************************************)
(* server.py                                                               *)
(***************************************************************************)
NoRoutes == <<>>

\* The gateway process: where it is (down, constructed, serving, exited by
\* sys.exit, crashed by an unhandled exception of the constructor, run_failed
\* by one of run), its exit status, and the fields of TaskAPIServer.
Server(pc, exit, cfg, auth_enabled, tokens, routes) ==
    [pc |-> pc, exit |-> exit, config |-> cfg, auth_enabled |-> auth_enabled,
     tokens |-> tokens, routes |-> routes]

NoServer == Server("down", 0, NoDoc, FALSE, {}, NoRoutes)

\* load_config: open raises FileNotFoundError when the file does not exist;
\* yaml.safe_load of an empty file is None
load_config(f) ==
    [raised |-> ~f.exists, none |-> f.exists /\ f.empty, doc |-> f.doc]

\* "auth_enabled" in config: true of any document that has the key
GetAuthEnabledHasKey(doc) == "auth_enabled" \in doc.keys

\* config.get("auth_enabled", False), config.get("tokens", {}),
\* config.get("actions", [])
GetAuthEnabled(doc) == IF "auth_enabled" \in doc.keys THEN doc.auth_enabled ELSE FALSE
GetTokens(doc)      == IF "tokens" \in doc.keys THEN doc.tokens ELSE {}
GetActions(doc)     == IF "actions" \in doc.keys THEN doc.actions ELSE <<>>

\* load_tokens: dict(config.get("tokens", {}))
load_tokens(f) == GetTokens(load_config(f).doc)

\* verify_token: self.tokens.get(token), None when the token is no key
verify_token(tokens, token) ==
    IF \E e \in tokens : e.key = token
    THEN [none |-> FALSE, user |-> (CHOOSE e \in tokens : e.key = token).val]
    ELSE [none |-> TRUE, user |-> ""]

\* str.replace(" ", "_") and str.lower(), character by character
ReplaceChar(ch) == IF ch = " " THEN "_" ELSE ch

LowerChar(ch) ==
    CASE ch = "A" -> "a"
      [] ch = "B" -> "b"
      [] ch = "C" -> "c"
      [] OTHER -> ch

route_name_of(name) == [i \in 1..Len(name) |-> LowerChar(ReplaceChar(name[i]))]

route_path_of(route_name) == <<"/">> \o route_name

\* route_func reads the loop variable `action` when it is called: every
\* route runs the command of the last action
make_route_func_late(actions, i) == actions[Len(actions)].cmd

\* make_route_func(action["cmd"]): the closure holds the command of the
\* action of this iteration
make_route_func(actions, i) == actions[i].cmd

Route(path, endpoint, cmd, login_required) ==
    [path |-> path, endpoint |-> endpoint, cmd |-> cmd, login_required |-> login_required]

\* configure_routes, from the i-th action on.  action["name"] raises KeyError
\* (TypeError for an element that is no mapping), .replace raises
\* AttributeError for a name that is no string, and Flask's add_url_rule
\* raises AssertionError when the endpoint already has another view function.
RECURSIVE RoutesFrom(_, _, _, _)
RoutesFrom(actions, i, auth_enabled, routes) ==
    IF i > Len(actions) THEN [raised |-> FALSE, routes |-> routes]
    ELSE IF ~actions[i].dict \/ ~actions[i].hasName \/ ~actions[i].nameIsStr
    THEN [raised |-> TRUE, routes |-> routes]
    ELSE LET route_name == route_name_of(actions[i].name)
             route_path == route_path_of(route_name)
         IN IF ~actions[i].hasCmd
            THEN [raised |-> TRUE, routes |-> routes]
            ELSE IF \E j \in 1..Len(routes) : routes[j].endpoint = route_name
            THEN [raised |-> TRUE, routes |-> routes]
            ELSE RoutesFrom(actions, i + 1, auth_enabled,
                            Append(routes, Route(route_path, route_name,
                                                 make_route_func(actions, i), auth_enabled)))

configure_routes(cfg, auth_enabled) == RoutesFrom(GetActions(cfg), 1, auth_enabled, NoRoutes)

\* TaskAPIServer.__init__
ServerConstructed(f) ==
    LET c == load_config(f)
    IN IF c.raised THEN Server("crashed", 1, NoDoc, FALSE, {}, NoRoutes)
       ELSE IF c.none THEN Server("exited", 3, NoDoc, FALSE, {}, NoRoutes)
       ELSE LET auth_enabled == GetAuthEnabled(c.doc)
                tokens == IF auth_enabled THEN load_tokens(f) ELSE {}
                r == configure_routes(c.doc, auth_enabled)
            IN IF r.raised
               THEN Server("crashed", 1, c.doc, auth_enabled, tokens, r.routes)
               ELSE Server("constructed", 0, c.doc, auth_enabled, tokens, r.routes)

\* __main__: api = TaskAPIServer("/etc/task-api.yaml")
ServerInit ==
    /\ srv.pc = "down"
    /\ hook.started \/ hook.restarted
    /\ srv' = ServerConstructed(file)
    /\ UNCHANGED <<charmVars, resp, inflight>>

\* the ports a socket can be bound to; 0 lets the system choose one
BindablePorts == 0..65535

\* serve(self.app, host="0.0.0.0", port=self.config["port"]):
\* self.config["port"] raises KeyError when the document has no port, and
\* binding raises OverflowError for a port that is not in 0..65535; both end
\* the process with a traceback before the listener is bound
serve(s) ==
    IF "port" \notin s.config.keys THEN [s EXCEPT !.pc = "run_failed", !.exit = 1]
    ELSE IF s.config.port \notin BindablePorts THEN [s EXCEPT !.pc = "run_failed", !.exit = 1]
    ELSE [s EXCEPT !.pc = "serving"]

\* __main__: api.run(), waitress serves on config["port"]
run ==
    /\ srv.pc = "constructed"
    /\ srv' = serve(srv)
    /\ UNCHANGED <<charmVars, resp, inflight>>

(***************************************************************************)
(* A request: GET path, with or without an Authorization header.           *)
(***************************************************************************)
Header(present, scheme, token) == [present |-> present, scheme |-> scheme, token |-> token]
NoHeader == Header(FALSE, "", "")

Headers == {NoHeader, Header(TRUE, "Bearer", "abc123"), Header(TRUE, "Bearer", "wrong"),
            Header(TRUE, "Basic", "abc123")}

UnknownPath == <<"/", "x">>
Paths == {route_path_of(route_name_of(a.name)) : a \in {e \in RouteElems : e.nameIsStr}}
            \cup {UnknownPath}

\* What running the command gave: its exit status.  Its output is taken to
\* be text (text=True decodes it), and the command to end.
Outcomes == [exit : {0, 1, 127}]

StdoutOf(cmd) == <<"stdout of ", cmd>>
StderrOf(cmd) == <<"stderr of ", cmd>>

\* no except clause: CalledProcessError leaves the view
run_bash_command_unhandled(command, out) ==
    IF out.exit = 0 THEN [raised |-> FALSE, output |-> StdoutOf(command)]
    ELSE [raised |-> TRUE, output |-> <<>>]

\* run_bash_command: result.stdout, or the text built from e.stderr when
\* subprocess.run raises CalledProcessError (check=True, non-zero exit)
run_bash_command(command, out) ==
    IF out.exit = 0 THEN [raised |-> FALSE, output |-> StdoutOf(command)]
    ELSE [raised |-> FALSE, output |-> <<"An error occurred: ">> \o StderrOf(command)]

\* HTTPTokenAuth(scheme="Bearer"): the token handed to verify_token is the
\* token of the header when the header is there with the scheme Bearer, and
\* the empty string when there is no header or its scheme is another
TokenOf(hdr) == IF hdr.present /\ hdr.scheme = "Bearer" THEN hdr.token ELSE ""

\* A handled request: its path and header, the status and body answered, the
\* command that was run ("none" when none was) and its exit status, and
\* whether verify_token was called.
Response(path, hdr, st, body, ran, exit, consulted) ==
    [path |-> path, hdr |-> hdr, status |-> st, body |-> body, ran |-> ran,
     exit |-> exit, consulted |-> consulted]

NoBody == [fields |-> {}, output |-> <<>>]
\* jsonify({"output": output})
Jsonify(output) == [fields |-> {"output"}, output |-> output]

NoResp == Response(<<>>, NoHeader, 0, NoBody, "none", 0, FALSE)

\* route_func of make_route_func: run the command, answer its output; an
\* exception in the view is answered 500 by Flask
route_func(path, hdr, cmd, out, consulted) ==
    LET r == run_bash_command(cmd, out)
    IN IF r.raised THEN Response(path, hdr, 500, NoBody, cmd, out.exit, consulted)
       ELSE Response(path, hdr, 200, Jsonify(r.output), cmd, out.exit, consulted)

\* the view runs before the token is verified
login_required_late(tokens, path, hdr, cmd, out) ==
    IF verify_token(tokens, TokenOf(hdr)).none
    THEN Response(path, hdr, 401, NoBody, cmd, out.exit, TRUE)
    ELSE route_func(path, hdr, cmd, out, TRUE)

\* auth.login_required(route_func): 401 when verify_token gives None
login_required(tokens, path, hdr, cmd, out) ==
    IF verify_token(tokens, TokenOf(hdr)).none
    THEN Response(path, hdr, 401, NoBody, "none", 0, TRUE)
    ELSE route_func(path, hdr, cmd, out, TRUE)

\* Flask dispatches GET path to the view of the rule of that path, 404 when
\* there is none
Dispatch(s, path, hdr, out) ==
    IF ~\E j \in 1..Len(s.routes) : s.routes[j].path = path
    THEN Response(path, hdr, 404, NoBody, "none", 0, FALSE)
    ELSE LET j == CHOOSE k \in 1..Len(s.routes) :
                     /\ s.routes[k].path = path
                     /\ \A m \in 1..(k - 1) : s.routes[m].path # path
         IN IF s.routes[j].login_required
            THEN login_required(s.tokens, path, hdr, s.routes[j].cmd, out)
            ELSE route_func(path, hdr, s.routes[j].cmd, out, FALSE)

\* the listener is bound in the constructor: requests are accepted while
\* the tables are being built
AcceptingFromConstructor(s) == s.pc \in {"loaded", "auth_ready", "constructed", "serving"}

\* requests are accepted once serve() has bound the listener, which __main__
\* calls after the constructor has returned
Accepting(s) == s.pc = "serving"

Request(path, hdr, out) ==
    /\ Accepting(srv)
    /\ resp' = Dispatch(srv, path, hdr, out)
    /\ UNCHANGED <<charmVars, srv, inflight>>

\* no config-changed handler is between its steps
NoRewrite == [pc |-> "idle", cfg |-> [actions |-> ActionsNull, tokens |-> TokensNone,
                                       auth |-> FALSE, port |-> 0],
              content |-> NoFile]

\* waitress hands each request to one of its worker threads
MaxThreads == 2
Threads == 1..MaxThreads

Idle == [pc |-> "idle", path |-> <<>>, hdr |-> NoHeader, cmd |-> "none", consulted |-> FALSE]
NoneInFlight == [t \in Threads |-> Idle]

\* A fresh unit: deployed with any configuration, no config file yet.
Init ==
    /\ config \in Configs
    /\ file = NoFile
    /\ status = MaintenanceStatus
    /\ hook = NoHook
    /\ installed = FALSE
    /\ rewrite = NoRewrite
    /\ srv = NoServer
    /\ resp = NoResp
    /\ inflight = NoneInFlight

Next ==
    \/ _on_install
    \/ _on_config_changed
    \/ \E a \in ReconfigActionValues : SetActions(a)
    \/ \E t \in TokenValues : SetTokens(t)
    \/ \E b \in BOOLEAN : SetAuthEnabled(b)

Spec == Init /\ [][Next]_vars

(***************************************************************************)
(* The gateway: started by the install hook (systemctl start) of a unit    *)
(* deployed with any configuration, then serving requests.                 *)
(***************************************************************************)
ServerConfigs ==
    [actions : ActionValuesOver(RouteElems), tokens : TokenValues, auth : BOOLEAN, port : Ports]

\* the document without one of its keys
WithoutKey(f, key) == [f EXCEPT !.doc.keys = @ \ {key}]

\* the keys a document on disk may lack
OptionalKeys == {"auth_enabled", "actions", "port"}

\* The file is as the install hook left it, or a document edited to leave
\* one key out (the gateway reads auth_enabled and actions with a default,
\* and port without).
InitServer ==
    /\ config \in ServerConfigs
    /\ LET r == InstallOutcome(config, NoFile)
       IN /\ file \in {r.file} \cup
                     (IF r.file.empty THEN {}
                      ELSE {WithoutKey(r.file, key) : key \in OptionalKeys})
          /\ status = r.status
          /\ hook = r.hook
          /\ installed = r.installed
    /\ rewrite = NoRewrite
    /\ srv = NoServer
    /\ resp = NoResp
    /\ inflight = NoneInFlight

NextServer ==
    \/ ServerInit
    \/ run
    \/ \E path \in Paths, hdr \in Headers, out \in Outcomes : Request(path, hdr, out)

SpecServer == InitServer /\ [][NextServer]_vars

(***************************************************************************)
(* The gateway's start-up step by step, while config-changed rewrites the  *)
(* file: the constructor reads the file twice (load_config, load_tokens),  *)
(* and _write_config_file truncates the file before it writes it.          *)
(***************************************************************************)
\* self.config = self.load_config(config_file); sys.exit(3) when it is falsy;
\* self.auth_enabled = self.config.get("auth_enabled", False)
StartLoadConfig ==
    /\ srv.pc = "down"
    /\ LET c == load_config(file)
       IN srv' = IF c.raised THEN Server("crashed", 1, NoDoc, FALSE, {}, NoRoutes)
                 ELSE IF c.none THEN Server("exited", 3, NoDoc, FALSE, {}, NoRoutes)
                 ELSE Server("loaded", 0, c.doc, GetAuthEnabled(c.doc), {}, NoRoutes)
    /\ UNCHANGED <<charmVars, resp, inflight>>

\* if self.auth_enabled: self.tokens = self.load_tokens(config_file), which
\* opens and parses the file again; config.get raises AttributeError when
\* the file is empty by now (yaml.safe_load gives None)
LoadedTokens(s, f) ==
    LET c == load_config(f)
    IN IF ~s.auth_enabled THEN [s EXCEPT !.pc = "auth_ready"]
       ELSE IF c.raised \/ c.none THEN [s EXCEPT !.pc = "crashed", !.exit = 1]
       ELSE [s EXCEPT !.pc = "auth_ready", !.tokens = load_tokens(f)]

StartLoadTokens ==
    /\ srv.pc = "loaded"
    /\ srv' = LoadedTokens(srv, file)
    /\ UNCHANGED <<charmVars, resp, inflight>>

\* self.configure_routes(), on the config the constructor loaded
StartConfigureRoutes ==
    /\ srv.pc = "auth_ready"
    /\ LET r == configure_routes(srv.config, srv.auth_enabled)
       IN srv' = IF r.raised
                 THEN [srv EXCEPT !.pc = "crashed", !.exit = 1, !.routes = r.routes]
                 ELSE [srv EXCEPT !.pc = "constructed", !.routes = r.routes]
    /\ UNCHANGED <<charmVars, resp, inflight>>

\* _on_config_changed enters _update_config_file; when the configuration is
\* to be written, open(file_path, mode="w") truncates the file
BeginConfigChanged ==
    /\ installed
    /\ rewrite.pc = "idle"
    /\ LET u == _update_config_file(config, file)
       IN /\ file' = IF u.wrote THEN EmptyFile ELSE file
          /\ rewrite' = [pc |-> IF u.wrote THEN "truncated" ELSE "updated",
                         cfg |-> config, content |-> u.file]
    /\ UNCHANGED <<config, status, hook, installed, serverVars>>

\* f.write(file_content), and the file is closed
WriteConfigChanged ==
    /\ rewrite.pc = "truncated"
    /\ file' = _write_config_file(rewrite.content)
    /\ rewrite' = [rewrite EXCEPT !.pc = "updated"]
    /\ UNCHANGED <<config, status, hook, installed, serverVars>>

\* the rest of _on_config_changed: _configured decides; systemctl restart
\* stops the gateway process and starts another
EndConfigChanged ==
    /\ rewrite.pc = "updated"
    /\ LET r == ConfigChangedOutcome(rewrite.cfg, file)
       IN /\ status' = r.status
          /\ hook' = r.hook
          /\ srv' = IF r.hook.restarted THEN NoServer ELSE srv
    /\ rewrite' = NoRewrite
    /\ UNCHANGED <<config, file, installed, resp, inflight>>

\* the configurations of this scenario: one action or none configured, one
\* of two token tables
StartupActionValues == {ActionsNull, ActionsList(<<ListFiles>>), ActionsList(<<Clock>>)}
StartupTokenValues == {TokensAlice, TokensEmptyKey}
StartupConfigs ==
    [actions : StartupActionValues, tokens : StartupTokenValues, auth : BOOLEAN, port : {8080}]

StartupHeaders == {NoHeader, Header(TRUE, "Bearer", "abc123")}

\* the unit after the install hook, which has started the service
InitStartup ==
    /\ config \in StartupConfigs
    /\ LET r == InstallOutcome(config, NoFile)
       IN /\ file = r.file
          /\ status = r.status
          /\ hook = r.hook
          /\ installed = r.installed
    /\ rewrite = NoRewrite
    /\ srv = NoServer
    /\ resp = NoResp
    /\ inflight = NoneInFlight

NextStartup ==
    \/ StartLoadConfig
    \/ StartLoadTokens
    \/ StartConfigureRoutes
    \/ run
    \/ \E path \in Paths, hdr \in StartupHeaders : Request(path, hdr, [exit |-> 0])
    \/ BeginConfigChanged
    \/ WriteConfigChanged
    \/ EndConfigChanged
    \/ \E a \in StartupActionValues : rewrite.pc = "idle" /\ SetActions(a)
    \/ \E t \in StartupTokenValues : rewrite.pc = "idle" /\ SetTokens(t)
    \/ \E b \in BOOLEAN : rewrite.pc = "idle" /\ SetAuthEnabled(b)

SpecStartup == InitStartup /\ [][NextStartup]_vars

(***************************************************************************)
(* Requests handled concurrently by the worker threads of a serving        *)
(* gateway: a thread routes and authenticates the request, then runs the   *)
(* command, then answers; the threads' steps interleave.                   *)
(***************************************************************************)
\* a single-use token: the lookup removes the entry it finds
TokensAfterPop(tokens, token) == {e \in tokens : e.key # token}

\* self.tokens.get(token) reads the table and leaves it as it is
TokensAfterGet(tokens, token) == tokens

\* the fields of the process after a thread has routed and authenticated a
\* request: verify_token is the only code of a request that touches them
AfterVerify(s, hdr, consulted) ==
    IF consulted THEN [s EXCEPT !.tokens = TokensAfterGet(s.tokens, TokenOf(hdr))] ELSE s

InFlight(path, hdr, cmd, consulted) ==
    [pc |-> "running", path |-> path, hdr |-> hdr, cmd |-> cmd, consulted |-> consulted]

\* Thread t takes a request: Flask finds the view of the path and
\* login_required verifies the token; a request that is not to run a command
\* (404, 401) is answered at once, the other is left running its command
Receive(t, path, hdr) ==
    /\ Accepting(srv)
    /\ inflight[t].pc = "idle"
    /\ LET r == Dispatch(srv, path, hdr, [exit |-> 0])
       IN /\ srv' = AfterVerify(srv, hdr, r.consulted)
          /\ IF r.ran = "none"
             THEN resp' = r /\ inflight' = inflight
             ELSE /\ inflight' = [inflight EXCEPT ![t] = InFlight(path, hdr, r.ran, r.consulted)]
                  /\ resp' = resp
    /\ UNCHANGED charmVars

\* the command of thread t's request has ended: route_func answers
Respond(t, out) ==
    /\ inflight[t].pc = "running"
    /\ resp' = route_func(inflight[t].path, inflight[t].hdr, inflight[t].cmd, out,
                          inflight[t].consulted)
    /\ inflight' = [inflight EXCEPT ![t] = Idle]
    /\ UNCHANGED <<charmVars, srv>>

\* two actions at different paths, with and without auth
RequestConfigs ==
    [actions : {ActionsList(<<ListFiles, Clock>>)}, tokens : {TokensNone, TokensAlice},
     auth : BOOLEAN, port : {8080}]

\* a gateway serving on the file the install hook wrote
InitRequests ==
    /\ config \in RequestConfigs
    /\ LET r == InstallOutcome(config, NoFile)
       IN /\ file = r.file
          /\ status = r.status
          /\ hook = r.hook
          /\ installed = r.installed
          /\ srv = serve(ServerConstructed(r.file))
    /\ rewrite = NoRewrite
    /\ resp = NoResp
    /\ inflight = NoneInFlight

NextRequests ==
    \/ \E t \in Threads, path \in Paths, hdr \in Headers : Receive(t, path, hdr)
    \/ \E t \in Threads, out \in Outcomes : Respond(t, out)

SpecRequests == InitRequests /\ [][NextRequests]_vars

(***************************************************************************)
(* Properties of the charm (specification Spec)                            *)
(***************************************************************************)
\* an element that is a mapping with both `name` and `cmd`
EntryHasNameAndCmd(e) == e.dict /\ e.hasName /\ e.hasCmd

EveryEntryHasNameAndCmd(a) ==
    a.k = "list" /\ \A i \in 1..Len(a.items) : EntryHasNameAndCmd(a.items[i])

HasBadEntry(a) ==
    a.k = "list" /\ \E i \in 1..Len(a.items) : ~EntryHasNameAndCmd(a.items[i])

HandlerRan == hook.op # "none"

\* the returns of _update_config_file that reject the configuration
RejectedVerdicts ==
    {"actions_yaml_error", "actions_structure", "tokens_yaml_error", "tokens_structure"}

\* C1: validation of `actions` is all-or-nothing.  Whenever a handler runs,
\* _valid_actions accepts the parsed value only if it is a list whose every
\* element is a mapping with `name` and `cmd`; and when some element is not,
\* _update_config_file returns by "Invalid actions structure" and the file is
\* left exactly as it was.
C1_AllOrNothing ==
    [][(_on_install \/ _on_config_changed) =>
          /\ _valid_actions(config.actions) => EveryEntryHasNameAndCmd(config.actions)
          /\ HasBadEntry(config.actions) =>
                /\ file' = file
                /\ ~hook'.wrote
                /\ hook'.verdict = "actions_structure"]_vars

\* C1's case: config-changed ran on a list with a bad element while the file
\* held an earlier document, which is still there
C1_Witness ==
    /\ hook.op = "config_changed"
    /\ HasBadEntry(config.actions)
    /\ hook.verdict = "actions_structure"
    /\ ~file.empty

\* C2: a handler that finishes on a configuration that failed validation
\* leaves the unit Blocked, and has neither started nor restarted the gateway
\* nor reported Active "Ready", whatever the state before.
C2_RejectedEndsBlocked ==
    (HandlerRan /\ ~hook.aborted /\ hook.verdict \in RejectedVerdicts) =>
        /\ status.kind = "blocked"
        /\ status # ActiveStatus("Ready")
        /\ ~hook.started
        /\ ~hook.restarted

\* a document of the four keys whose actions all have `name` and `cmd` and
\* whose tokens map strings to strings
ValidatedDoc(d) ==
    /\ d.keys = DocKeys
    /\ \A i \in 1..Len(d.actions) : EntryHasNameAndCmd(d.actions[i])
    /\ \A e \in d.tokens : e.keyIsStr /\ e.valIsStr

\* C3: in every reachable state the config file, when it is there, is empty
\* or holds a validated document: a rejected configuration never reaches the
\* file the gateway is started on.
C3_FileIsValidated ==
    (file.exists /\ ~file.empty) => ValidatedDoc(file.doc)

\* C3's case: a rejected configuration was handled, and the gateway was
\* restarted on the file, which holds the earlier validated document
C3_Witness ==
    /\ hook.op = "config_changed"
    /\ hook.verdict \in RejectedVerdicts
    /\ hook.restarted
    /\ ~file.empty
    /\ Len(file.doc.actions) > 0

ActionsAreNull  == config.actions = ActionsNull
ActionsAreEmpty == config.actions = ActionsList(<<>>)

\* the status config-changed ends with when `actions` is null
StatusOfNullActions ==
    ConfigChangedOutcome([config EXCEPT !.actions = ActionsNull], file).status

\* C4: a handler that finishes on `actions` null, or on `actions` an empty
\* list, leaves the unit Blocked (never Active "Ready", the gateway not
\* restarted), and the status of the empty list differs from that of null.
C4_NullAndEmptyNotReady ==
    (HandlerRan /\ ~hook.aborted) =>
        /\ (ActionsAreNull \/ ActionsAreEmpty) =>
              /\ status.kind = "blocked"
              /\ status # ActiveStatus("Ready")
              /\ ~hook.restarted
        /\ ActionsAreEmpty => status # StatusOfNullActions

\* `tokens` parses to a mapping whose keys and values are all strings
StrToStrMapping(t) ==
    t.k = "map" /\ \A e \in t.entries : e.keyIsStr /\ e.valIsStr

Accepted == hook.verdict = "written"

\* C5: on a valid `actions` list, with auth-enabled true the configuration
\* is accepted exactly when `tokens` is a mapping of strings to strings, and
\* with auth-enabled false it is accepted whatever `tokens` is.
C5_TokensRequiredWithAuth ==
    (HandlerRan /\ EveryEntryHasNameAndCmd(config.actions)) =>
        /\ config.auth => (Accepted <=> StrToStrMapping(config.tokens))
        /\ ~config.auth => Accepted

(***************************************************************************)
(* Properties of the gateway (specification SpecServer)                    *)
(***************************************************************************)
\* "/" + lowercase(name) with spaces replaced by underscores, of the names
\* of the model
ExpectedPath(name) ==
    CASE name = <<"A", " ", "B">> -> <<"/", "a", "_", "b">>
      [] name = <<"a", "_", "b">> -> <<"/", "a", "_", "b">>
      [] name = <<"C">>           -> <<"/", "c">>
      [] OTHER                    -> <<"/">>

\* the action list of the file the gateway is started on
FileActions == GetActions(file.doc)

NamesAreStrings == \A i \in 1..Len(FileActions) : FileActions[i].nameIsStr

PathsCollide ==
    \E i, j \in 1..Len(FileActions) :
        i # j /\ ExpectedPath(FileActions[i].name) = ExpectedPath(FileActions[j].name)

Started == srv.pc # "down"
Built   == srv.pc \in {"constructed", "serving", "run_failed"}

\* one route per action, in order, at the action's path, running its command
OneRoutePerAction ==
    /\ Len(srv.routes) = Len(FileActions)
    /\ \A i \in 1..Len(FileActions) :
          /\ srv.routes[i].path = ExpectedPath(FileActions[i].name)
          /\ srv.routes[i].cmd = FileActions[i].cmd

\* a request that ran a command ran the command of the action of its path
RanOwnCommand ==
    resp.ran # "none" =>
        \E i \in 1..Len(FileActions) :
            /\ ExpectedPath(FileActions[i].name) = resp.path
            /\ FileActions[i].cmd = resp.ran

\* C6 as stated: for every accepted list of actions (named by strings), also
\* one in which two names normalize to the same path, the gateway registers
\* one route per action, each running its own command.
C6_OneRoutePerActionAlways ==
    (Started /\ ~file.empty /\ NamesAreStrings) => (Built /\ OneRoutePerAction)

\* C6, amended: for every accepted list whose names are strings that
\* normalize to distinct paths, configure_routes registers one route per
\* action at "/" + lowercase(name) with spaces replaced by underscores, and
\* each route runs its own action's command; when two names normalize to the
\* same path configure_routes raises and the gateway never serves.
C6_OneRoutePerDistinctAction ==
    (Started /\ ~file.empty /\ NamesAreStrings) =>
        /\ ~PathsCollide => (Built /\ OneRoutePerAction /\ RanOwnCommand)
        /\ PathsCollide => srv.pc = "crashed"

\* C6's case: two routes with different commands, and a request to the first
\* ran the first action's command
C6_Witness ==
    /\ srv.pc = "serving"
    /\ Len(srv.routes) = 2
    /\ FileActions[1].cmd # FileActions[2].cmd
    /\ resp.status = 200
    /\ resp.path = ExpectedPath(FileActions[1].name)
    /\ resp.ran = FileActions[1].cmd

\* auth is on in the file the gateway is started on
AuthOn == "auth_enabled" \in file.doc.keys /\ file.doc.auth_enabled

Answered == resp.status # 0

Registered(path) ==
    \E i \in 1..Len(FileActions) : ExpectedPath(FileActions[i].name) = path

\* the header carries a Bearer credential that is a key of the token table
ValidBearer(hdr) ==
    /\ hdr.present
    /\ hdr.scheme = "Bearer"
    /\ \E e \in file.doc.tokens : e.key = hdr.token

\* C7: with auth enabled, a GET to a registered route is answered 200
\* exactly when its header carries a Bearer credential that is a key of the
\* token table, and 401 otherwise (no header, another scheme, an unknown
\* token); verify_token gives the identity the table maps the token to.
C7_BearerDecides ==
    (srv.pc = "serving" /\ AuthOn) =>
        /\ (Answered /\ Registered(resp.path)) =>
              /\ resp.status = 200 <=> ValidBearer(resp.hdr)
              /\ ~ValidBearer(resp.hdr) => resp.status = 401
        /\ \A e \in file.doc.tokens :
              verify_token(srv.tokens, e.key) = [none |-> FALSE, user |-> e.val]

\* C8: no command is run for a request that is answered 401.
C8_NoCommandOn401 ==
    resp.status = 401 => resp.ran = "none"

\* C8's case: auth on, a request to a registered route answered 401
C8_Witness ==
    /\ AuthOn
    /\ Registered(resp.path)
    /\ resp.status = 401

\* C9: with auth_enabled false or absent, no route is gated, a GET without
\* an Authorization header to a registered route is answered 200, and
\* verify_token is never called.
C9_OpenWithoutAuth ==
    (srv.pc = "serving" /\ ~AuthOn) =>
        /\ \A i \in 1..Len(srv.routes) : ~srv.routes[i].login_required
        /\ (Answered /\ Registered(resp.path) /\ ~resp.hdr.present) => resp.status = 200
        /\ ~resp.consulted

\* C9's case: the key auth_enabled is absent, tokens are configured, and a
\* request without a header was answered 200
C9_Witness ==
    /\ srv.pc = "serving"
    /\ "auth_enabled" \notin file.doc.keys
    /\ file.doc.tokens # {}
    /\ ~resp.hdr.present
    /\ resp.status = 200

\* C10: a request whose command was run is answered 200 with a body of the
\* one field `output`: the command's standard output when it exited zero,
\* and a text ending in its standard error when it did not.
C10_CommandOutputIs200 ==
    resp.ran # "none" =>
        /\ resp.status = 200
        /\ resp.body.fields = {"output"}
        /\ resp.exit = 0 => resp.body.output = StdoutOf(resp.ran)
        /\ resp.exit # 0 =>
              /\ Len(resp.body.output) > Len(StderrOf(resp.ran))
              /\ SubSeq(resp.body.output,
                        Len(resp.body.output) - Len(StderrOf(resp.ran)) + 1,
                        Len(resp.body.output)) = StderrOf(resp.ran)

\* C10's case: the command exited non-zero and the request was answered 200
C10_Witness ==
    /\ resp.ran # "none"
    /\ resp.exit # 0
    /\ resp.status = 200

(***************************************************************************)
(* Start-up of the gateway, and what validation lets through               *)
(***************************************************************************)
\* a file the gateway can serve from: a document with `port` and a non-empty
\* `actions` list whose elements all have a string `name` and a `cmd`
FullyValidFile(f) ==
    /\ f.exists
    /\ ~f.empty
    /\ {"actions", "port"} \subseteq f.doc.keys
    /\ Len(f.doc.actions) > 0
    /\ \A i \in 1..Len(f.doc.actions) :
          EntryHasNameAndCmd(f.doc.actions[i]) /\ f.doc.actions[i].nameIsStr

Terminated == srv.pc \in {"exited", "crashed", "run_failed"}

\* C11: a gateway whose file is absent, empty, without `actions` or with an
\* empty action list, with a malformed entry, or without `port`, never
\* reaches Serving, and when it has terminated its exit status is non-zero;
\* only a fully valid file leads to Serving.
C11_InvalidNeverServes ==
    /\ srv.pc = "serving" => FullyValidFile(file)
    /\ (Started /\ ~FullyValidFile(file)) => srv.pc # "serving"
    /\ Terminated => srv.exit # 0

\* the name of the element is a non-empty string
NameIsNonEmptyString(e) == e.hasName /\ e.nameIsStr /\ Len(e.name) > 0

\* C12: every action of a configuration that passes validation has a `name`
\* (and a `cmd`) that is a non-empty string; a configuration with an action
\* whose name is not a string is rejected.
C12_ValidatedNamesAreStrings ==
    (HandlerRan /\ config.actions.k = "list") =>
        /\ Accepted =>
              \A i \in 1..Len(config.actions.items) :
                  /\ EntryHasNameAndCmd(config.actions.items[i])
                  /\ NameIsNonEmptyString(config.actions.items[i])
        /\ (\E i \in 1..Len(config.actions.items) :
                ~NameIsNonEmptyString(config.actions.items[i]))
              => hook.verdict \in RejectedVerdicts

\* the TCP ports a listener can be configured on
ValidPorts == 1..65535

\* the file holds a document rendered with the port of the configuration
FileHasConfiguredPort ==
    file.exists /\ ~file.empty /\ file.doc.port = config.port

\* C13: a handler that ran on a configuration whose port is not in 1..65535
\* rejected it: nothing was written for it, the file does not hold that
\* port, and the gateway was not started or restarted on a file holding it.
C13_PortOutOfRangeRejected ==
    (HandlerRan /\ config.port \notin ValidPorts) =>
        /\ hook.verdict # "written"
        /\ ~FileHasConfiguredPort
        /\ ~((hook.started \/ hook.restarted) /\ FileHasConfiguredPort)

(***************************************************************************)
(* The handlers' endings (specification Spec)                              *)
(***************************************************************************)
FileIsNonEmpty == file.exists /\ ~file.empty

\* what _update_config_file writes for the current configuration
RenderedFromConfig ==
    _render_config_file(config.actions, config.auth, config.tokens, config.port)

\* C16: config-changed restarts the service, opens the port and reports
\* Active "Ready" exactly when the file is non-empty after the update; and
\* whenever it ends in Active "Ready" the gateway was restarted on the file
\* content produced by the current charm configuration.
C16_ReadyMeansRestartedOnCurrent ==
    hook.op = "config_changed" =>
        /\ hook.restarted <=> FileIsNonEmpty
        /\ hook.opened <=> FileIsNonEmpty
        /\ status = ActiveStatus("Ready") <=> FileIsNonEmpty
        /\ status = ActiveStatus("Ready") =>
              /\ hook.restarted
              /\ hook.wrote
              /\ file = RenderedFromConfig

\* C18: the install handler, on every configuration and also on a fresh unit
\* with no config file, runs to completion: it ends Active "Ready" exactly
\* when the file exists and is non-empty and Blocked otherwise, and never
\* with an unhandled error.
C18_InstallCompletes ==
    hook.op = "install" =>
        /\ ~hook.aborted
        /\ status # ErrorStatus
        /\ status = ActiveStatus("Ready") <=> FileIsNonEmpty
        /\ ~FileIsNonEmpty => status.kind = "blocked"

(***************************************************************************)
(* Start-up against a concurrent rewrite (specification SpecStartup)       *)
(***************************************************************************)
\* the tables of the process are complete: a config is loaded and the route
\* table is the whole of what configure_routes makes of it
FullyBuilt ==
    /\ srv.config.keys # {}
    /\ LET r == configure_routes(srv.config, srv.auth_enabled)
       IN ~r.raised /\ srv.routes = r.routes

\* C15: the process goes through load_config, load_tokens (when auth is
\* enabled), configure_routes and only then serve; while it serves its tables
\* are complete, and a request is only ever dispatched by a serving process.
C15_StartupOrdering ==
    /\ [](srv.pc = "serving" => FullyBuilt)
    /\ [][/\ srv'.pc = "loaded" => srv.pc \in {"down", "loaded"}
          /\ srv'.pc = "auth_ready" => srv.pc \in {"loaded", "auth_ready"}
          /\ srv'.pc = "constructed" => srv.pc \in {"auth_ready", "constructed"}
          /\ srv'.pc = "serving" => srv.pc \in {"constructed", "serving"}
          /\ resp' # resp => (srv.pc = "serving" /\ FullyBuilt)]_vars

\* C15's case: a process that loaded a token table and registered a route
\* is serving and has answered a request with the command's output
C15_Witness ==
    /\ srv.pc = "serving"
    /\ srv.auth_enabled
    /\ srv.tokens # {}
    /\ Len(srv.routes) > 0
    /\ resp.status = 200

\* C17: a serving gateway with auth enabled holds the token table of the
\* file version its config (actions, auth flag, port) was loaded from, under
\* every interleaving of its start-up with a rewrite of the file.
C17_OneFileVersion ==
    (srv.pc = "serving" /\ srv.auth_enabled) => srv.tokens = GetTokens(srv.config)

(***************************************************************************)
(* Concurrent requests (specification SpecRequests)                        *)
(***************************************************************************)
\* the answer to a request is what the process, as it is now, gives for that
\* path, that header and that outcome of the command
AnswerIsOwn(r) == r = Dispatch(srv, r.path, r.hdr, [exit |-> r.exit])

\* the command a thread runs is the one of its request's path and header
RunsOwnCommand(q) ==
    q.pc = "running" => q.cmd = Dispatch(srv, q.path, q.hdr, [exit |-> 0]).ran

\* C14: every step of every request, answered 200 on a command that
\* succeeded or failed, or rejected with 401, leaves the loaded config, the
\* token table, the route table and the file unchanged, whatever the other
\* threads are doing; so the status and the command of a request are those
\* of its own path and credential.
C14_RequestsLeaveStateAlone ==
    /\ [][srv' = srv /\ file' = file /\ config' = config]_vars
    /\ [](Answered => AnswerIsOwn(resp))
    /\ [](\A t \in Threads : RunsOwnCommand(inflight[t]))

\* C14's case: with auth on, a request was rejected with 401 while thread 1
\* runs the command of one route and thread 2 that of another
C14_Witness ==
    /\ AuthOn
    /\ resp.status = 401
    /\ inflight[1].pc = "running"
    /\ inflight[2].pc = "running"
    /\ inflight[1].cmd # inflight[2].cmd

====
